---- MODULE Spec2Model ----
(***************************************************************************)
(* Model of src/audiobook-gen.py: the GUI control context                  *)
(* (AudiobookGeneratorGUI), the background worker (AudioGenerationWorker   *)
(* driving TextToAudio.run once per part), the queued Qt signals between   *)
(* them, and the .wav/.opus files each part leaves on disk.                *)
(*                                                                         *)
(* A progress value is the exact rational num/den: the code computes       *)
(* ((part_num - 1) + percent/100) / total_parts, kept here as              *)
(* num = (part_num - 1)*100 + percent over den = 100*total_parts.          *)
(***************************************************************************)
EXTENDS Integers, Sequences, FiniteSets, TLC

\* Largest number of parts a loaded book has in the model.
MaxParts == 2

\* Largest number of queued signals the GUI thread has not yet handled: a worker
\* that would emit one more waits for the event loop.
MaxQueue == 1

\* QSpinBox() starts with maximum 99 until load_parts lowers it.
QSpinDefaultMax == 99

VARIABLES
    generateBtn,  \* generate_btn.isEnabled()
    cancelBtn,    \* cancel_btn.isEnabled()
    nparts,       \* len(book.getParts()); -1 while self.book is None
    spinMax,      \* maximum() of both spin boxes
    statusLabel,  \* what status_label shows
    jobLog,       \* progress_manager.log lines since "Starting audiobook generation..."
    worker,       \* self.worker_thread
    queue,        \* signals emitted by worker threads, not yet delivered to the GUI thread
    emitted,      \* every signal the current worker has emitted, in order
    wav,          \* state of <basename i>.wav on disk
    opus,         \* state of <basename i>.opus on disk
    unit,         \* what happened to part i in the current job
    guiWaiting,   \* the GUI thread is blocked in worker_thread.wait()
    crashed,      \* the process aborted (a running QThread object was destroyed)
    frame,        \* arguments and locals of the function a command-line run is in
    ret           \* what that function has returned

vars == <<generateBtn, cancelBtn, nparts, spinMax,
          statusLabel, jobLog, worker, queue, emitted, wav, opus, unit,
          guiWaiting, crashed, frame, ret>>

\* what the main window and its worker thread read and write
appVars == <<generateBtn, cancelBtn, nparts, spinMax,
             statusLabel, jobLog, worker, queue, emitted, wav, opus, unit,
             guiWaiting, crashed>>

\* what a command-line run (args.files given: no window, no worker) reads and writes
cliVars == <<frame, ret>>

guiVars == <<generateBtn, cancelBtn, nparts, spinMax,
             statusLabel, jobLog, guiWaiting, cliVars>>

Indices == 0 .. (MaxParts - 1)

\* len(parts) of the books the user loads: one without text and one with MaxParts parts
BookSizes == {0, MaxParts}

----------------------------------------------------------------------------
(* Signals *)

NoCause == "none"

\* part_progress_callback without the "- 1": the part counted as already done
part_progress_callback_no_minus(part_num, total_parts, percent) ==
    [type |-> "progress", kind |-> "sub", part |-> part_num, total |-> total_parts,
     pct |-> percent, num |-> part_num * 100 + percent, den |-> 100 * total_parts,
     success |-> FALSE, cause |-> NoCause]

\* progress.emit(status, overall_percent) from part_progress_callback
part_progress_callback(part_num, total_parts, percent) ==
    [type |-> "progress", kind |-> "sub", part |-> part_num, total |-> total_parts,
     pct |-> percent, num |-> (part_num - 1) * 100 + percent, den |-> 100 * total_parts,
     success |-> FALSE, cause |-> NoCause]

\* progress.emit(f"Completed part {current_part}/{total_parts}", current_part / total_parts)
part_complete_progress(current_part, total_parts) ==
    [type |-> "progress", kind |-> "part", part |-> current_part, total |-> total_parts,
     pct |-> 100, num |-> current_part * 100, den |-> 100 * total_parts,
     success |-> FALSE, cause |-> NoCause]

\* finished.emit(True)
finished_signal ==
    [type |-> "finished", kind |-> "terminal", part |-> 0, total |-> 0,
     pct |-> 0, num |-> 0, den |-> 1, success |-> TRUE, cause |-> NoCause]

\* error.emit(str(e)): the payload is the text of the exception and nothing else
error_signal(e) ==
    [type |-> "error", kind |-> "terminal", part |-> 0, total |-> 0,
     pct |-> 0, num |-> 0, den |-> 1, success |-> FALSE, cause |-> e]

\* a signal waiting in the GUI thread's event queue: the slot it will call with the
\* arguments that slot branches on (on_progress only displays what it is given), and
\* whether the worker object that sent it has been replaced since
Tag(sig, old) ==
    [type |-> sig.type, success |-> sig.success, cause |-> sig.cause, stale |-> old]

\* the queue once self.worker_thread names another object
Stale(q) == [k \in 1 .. Len(q) |-> [q[k] EXCEPT !.stale = TRUE]]

----------------------------------------------------------------------------
(* The worker thread *)

NoWorker ==
    [exists |-> FALSE, running |-> FALSE, terminating |-> FALSE, pc |-> "none",
     start_idx |-> 0, end_idx |-> 0, i |-> 0, reqi |-> -1]

\* AudioGenerationWorker(voice, speed, book, start_idx, end_idx) followed by start()
NewWorker(s, e) ==
    [exists |-> TRUE, running |-> TRUE, terminating |-> FALSE, pc |-> "begin",
     start_idx |-> s, end_idx |-> e, i |-> s, reqi |-> -1]

\* QThread.isRunning() of self.worker_thread
isRunning == worker.exists /\ worker.running

\* the thread was stopped by terminate(); worker.pc is where it was stopped
Killed == worker.exists /\ ~worker.running /\ worker.pc # "exited"

\* the worker is between two parts: one is complete and another is still to come
BetweenParts ==
    worker.pc = "loop" /\ worker.i > worker.start_idx /\ worker.i < worker.end_idx + 1

total_parts == worker.end_idx - worker.start_idx + 1

current_part == worker.i - worker.start_idx + 1

\* range(self.start_idx, self.end_idx): the loop without the "+ 1"
MoreParts_exclusive == worker.i < worker.end_idx

\* range(self.start_idx, self.end_idx + 1): is there another part to process
MoreParts == worker.i < worker.end_idx + 1

Emit(sig) ==
    /\ Len(queue) < MaxQueue
    /\ queue' = Append(queue, Tag(sig, FALSE))
    /\ emitted' = Append(emitted, sig)

At(p) == ~crashed /\ isRunning /\ worker.pc = p

\* an except clause inside the loop: the error is reported and the loop goes on
Raise_and_continue(e) ==
    /\ Emit(error_signal(e))
    /\ worker' = [worker EXCEPT !.pc = IF worker.pc = "begin" THEN "loop" ELSE "part"]

\* except Exception as e: self.error.emit(str(e))
Raise(e) ==
    /\ Emit(error_signal(e))
    /\ worker' = [worker EXCEPT !.pc = "emitted"]

\* tts = TextToAudio(...); outdir, title = self.book.makedir()
W_Begin ==
    /\ At("begin")
    /\ \/ /\ worker' = [worker EXCEPT !.pc = "loop"]
          /\ UNCHANGED <<queue, emitted>>
       \/ Raise("makedir")
    /\ UNCHANGED <<guiVars, wav, opus, unit, crashed>>

\* the for statement: either the next part starts with progress_callback(5.0, ...),
\* or the loop is over and finished.emit(True) runs
W_Loop ==
    /\ At("loop")
    /\ IF MoreParts
       THEN /\ Emit(part_progress_callback(current_part, total_parts, 5))
            /\ worker' = [worker EXCEPT !.pc = "open"]
            /\ unit' = [unit EXCEPT ![worker.i] = "started"]
       ELSE /\ Emit(finished_signal)
            /\ worker' = [worker EXCEPT !.pc = "emitted"]
            /\ UNCHANGED unit
    /\ UNCHANGED <<guiVars, wav, opus, crashed>>

\* wave.open(filename, "wb"): the file is created or truncated
W_OpenWav ==
    /\ At("open")
    /\ wav' = [wav EXCEPT ![worker.i] = "partial"]
    /\ worker' = [worker EXCEPT !.pc = "synth"]
    /\ UNCHANGED <<guiVars, queue, emitted, opus, unit, crashed>>

\* the loop over self._kokoro_generator(txt): all frames written, or the engine raises
W_Synth ==
    /\ At("synth")
    /\ \/ /\ wav' = [wav EXCEPT ![worker.i] = "complete"]
          /\ worker' = [worker EXCEPT !.pc = "emit75"]
          /\ UNCHANGED <<queue, emitted, unit>>
       \/ /\ Raise("synthesis")
          /\ unit' = [unit EXCEPT ![worker.i] = "synth_raise"]
          /\ UNCHANGED wav
    /\ UNCHANGED <<guiVars, opus, crashed>>

\* progress_callback(75.0, "Converting to OPUS...")
W_Emit75 ==
    /\ At("emit75")
    /\ Emit(part_progress_callback(current_part, total_parts, 75))
    /\ worker' = [worker EXCEPT !.pc = "encode"]
    /\ UNCHANGED <<guiVars, wav, opus, unit, crashed>>

\* TextToAudio.run without the test of result.returncode
AfterEncode_unchecked(rc) == "emit95"

\* where TextToAudio.run goes after subprocess.run returned with returncode rc
AfterEncode(rc) == IF rc = 0 THEN "emit95" ELSE "part"

\* result = subprocess.run(["ffmpeg", ...]): exit code 0 writes the .opus file, a
\* non-zero exit code leaves it as it was, and a launch failure raises
W_Encode ==
    /\ At("encode")
    /\ \/ /\ opus' = [opus EXCEPT ![worker.i] = "complete"]
          /\ unit' = [unit EXCEPT ![worker.i] = "enc_ok"]
          /\ worker' = [worker EXCEPT !.pc = AfterEncode(0)]
          /\ UNCHANGED <<queue, emitted>>
       \/ /\ unit' = [unit EXCEPT ![worker.i] = "enc_fail"]
          /\ worker' = [worker EXCEPT !.pc = AfterEncode(1)]
          /\ UNCHANGED <<queue, emitted, opus>>
       \/ /\ Raise("encoder")
          /\ unit' = [unit EXCEPT ![worker.i] = "enc_raise"]
          /\ UNCHANGED opus
    /\ UNCHANGED <<guiVars, wav, crashed>>

\* progress_callback(95.0, "Deleting WAV...")
W_Emit95 ==
    /\ At("emit95")
    /\ Emit(part_progress_callback(current_part, total_parts, 95))
    /\ worker' = [worker EXCEPT !.pc = "rm"]
    /\ UNCHANGED <<guiVars, wav, opus, unit, crashed>>

\* subprocess.run(["rm", waveFile])
W_Rm ==
    /\ At("rm")
    /\ wav' = [wav EXCEPT ![worker.i] = "absent"]
    /\ worker' = [worker EXCEPT !.pc = "emit100"]
    /\ UNCHANGED <<guiVars, queue, emitted, opus, unit, crashed>>

\* progress_callback(100.0, "Generation complete")
W_Emit100 ==
    /\ At("emit100")
    /\ Emit(part_progress_callback(current_part, total_parts, 100))
    /\ worker' = [worker EXCEPT !.pc = "part"]
    /\ UNCHANGED <<guiVars, wav, opus, unit, crashed>>

\* the loop without line 392: the next part starts with no "Completed part" event
W_PartComplete_silent ==
    /\ At("part")
    /\ worker' = [worker EXCEPT !.pc = "loop", !.i = worker.i + 1]
    /\ UNCHANGED <<guiVars, queue, emitted, wav, opus, unit, crashed>>

\* tts.run returned: self.progress.emit(f"Completed part ..."), then the next i
W_PartComplete ==
    /\ At("part")
    /\ Emit(part_complete_progress(current_part, total_parts))
    /\ worker' = [worker EXCEPT !.pc = "loop", !.i = worker.i + 1]
    /\ UNCHANGED <<guiVars, wav, opus, unit, crashed>>

\* run() returns and the thread ends: isRunning() becomes False
W_Exit ==
    /\ At("emitted")
    /\ worker' = [worker EXCEPT !.pc = "exited", !.running = FALSE]
    /\ UNCHANGED <<guiVars, queue, emitted, wav, opus, unit, crashed>>

\* QThread.terminate() takes effect: the thread is stopped wherever it is (Qt: "may or
\* may not be terminated immediately", so the worker may have gone on in between)
W_Killed ==
    /\ ~crashed /\ isRunning /\ worker.terminating
    /\ worker' = [worker EXCEPT !.running = FALSE]
    /\ UNCHANGED <<guiVars, queue, emitted, wav, opus, unit, crashed>>

\* _kokoro_generator: the module is imported on first use only, but
\* KPipeline(lang_code='a', repo_id=...) is called each time the generator's body
\* runs, once per _run_kokoro. These are the parts of the current job whose
\* generator has been run to its end, each with a pipeline of its own.
KPipelines ==
    {k \in Indices :
        \/ unit[k] \in {"enc_ok", "enc_fail", "enc_raise"}
        \/ unit[k] = "started" /\ worker.i = k /\ worker.pc \in {"emit75", "encode"}}

WorkerStep ==
    \/ W_Begin \/ W_Loop \/ W_OpenWav \/ W_Synth \/ W_Emit75 \/ W_Encode
    \/ W_Emit95 \/ W_Rm \/ W_Emit100 \/ W_PartComplete \/ W_Exit \/ W_Killed

----------------------------------------------------------------------------
(* The GUI thread *)

Gui == ~crashed /\ ~guiWaiting

\* PartSelectionWidget.load_parts: with parts, both spin boxes get maximum len(parts)-1
load_parts(n) == IF n > 0 THEN n - 1 ELSE spinMax

\* load_epub_file, a click on load_btn: BookReader(epub_path) raises, or a book of n
\* parts is loaded and generate_btn is enabled. load_btn is no variable of the model:
\* on_epub_path_changed enables it whenever the user types the path of an existing
\* .epub file, during a generation too, so the click is possible at any time.
load_epub_file ==
    /\ Gui
    /\ \/ UNCHANGED <<generateBtn, nparts, spinMax>>
       \/ \E n \in BookSizes :
             /\ nparts' = n
             /\ spinMax' = load_parts(n)
             /\ generateBtn' = TRUE
    /\ UNCHANGED <<cancelBtn, statusLabel, jobLog, guiWaiting, worker, queue, emitted,
                   wav, opus, unit, crashed, cliVars>>

\* PartSelectionWidget.get_selected_range with start_spin at s and end_spin at e
get_selected_range(s, e) == IF e < s THEN <<e, s>> ELSE <<s, e>>

\* on_generation_finished that enables generate_btn after a success only
on_generation_finished_success_only(success, log) ==
    /\ generateBtn' = success
    /\ cancelBtn' = FALSE
    /\ IF success
       THEN /\ jobLog' = Append(log, "success")
            /\ statusLabel' = "Generation complete"
       ELSE /\ jobLog' = Append(log, "failed_or_cancelled")
            /\ statusLabel' = "Generation failed"

\* on_generation_finished(success)
on_generation_finished(success, log) ==
    /\ generateBtn' = TRUE
    /\ cancelBtn' = FALSE
    /\ IF success
       THEN /\ jobLog' = Append(log, "success")
            /\ statusLabel' = "Generation complete"
       ELSE /\ jobLog' = Append(log, "failed_or_cancelled")
            /\ statusLabel' = "Generation failed"

\* generate_audiobook, a click on generate_btn, with the spin boxes where the user
\* has put them (s, e) and the user's answer to the confirmation (reply)
generate_audiobook ==
    /\ Gui /\ generateBtn
    /\ IF nparts <= 0
       THEN UNCHANGED vars
       ELSE \E s, e \in 0 .. spinMax, reply \in {"Yes", "No"} :
              IF reply # "Yes"
              THEN UNCHANGED vars
              ELSE /\ generateBtn' = FALSE
                   /\ cancelBtn' = TRUE
                   \* the object self.worker_thread held is dropped: Qt aborts the
                   \* process when a QThread is destroyed while it is running
                   /\ crashed' = isRunning
                   /\ worker' = NewWorker(get_selected_range(s, e)[1],
                                          get_selected_range(s, e)[2])
                   /\ queue' = Stale(queue)
                   /\ emitted' = <<>>
                   /\ unit' = [k \in Indices |-> "none"]
                   /\ jobLog' = <<>>
                   /\ UNCHANGED <<nparts, spinMax, statusLabel, guiWaiting, wav, opus,
                                  cliVars>>

\* cancel_generation, a click on cancel_btn, up to worker_thread.wait(); reqi notes
\* the part that was next when the request came between two parts
cancel_generation ==
    /\ Gui /\ cancelBtn
    /\ IF isRunning
       THEN /\ worker' = [worker EXCEPT !.terminating = TRUE,
                                         !.reqi = IF BetweenParts THEN worker.i ELSE -1]
            /\ guiWaiting' = TRUE
       ELSE UNCHANGED <<worker, guiWaiting>>
    /\ UNCHANGED <<generateBtn, cancelBtn, nparts, spinMax,
                   statusLabel, jobLog, queue, emitted, wav, opus, unit, crashed, cliVars>>

\* cancel_generation without worker_thread.wait(): it goes on right after terminate()
cancel_generation_no_wait ==
    /\ ~crashed /\ guiWaiting
    /\ guiWaiting' = FALSE
    /\ on_generation_finished(FALSE, Append(jobLog, "cancelled"))
    /\ UNCHANGED <<nparts, spinMax, worker, queue, emitted, wav, opus, unit, crashed,
                   cliVars>>

\* cancel_generation once wait() has returned
cancel_generation_return ==
    /\ ~crashed /\ guiWaiting /\ ~isRunning
    /\ guiWaiting' = FALSE
    /\ on_generation_finished(FALSE, Append(jobLog, "cancelled"))
    /\ UNCHANGED <<nparts, spinMax, worker, queue, emitted, wav, opus,
                   unit, crashed, cliVars>>

\* the GUI event loop hands the oldest queued signal of the given type to its slot
Delivered(type) ==
    /\ Gui /\ queue # <<>> /\ Head(queue).type = type
    /\ queue' = Tail(queue)
    /\ UNCHANGED <<nparts, spinMax, guiWaiting, worker, emitted, wav, opus, unit, crashed,
                   cliVars>>

\* on_progress(message, progress)
on_progress ==
    /\ Delivered("progress")
    /\ statusLabel' = "progress"
    /\ UNCHANGED <<generateBtn, cancelBtn, jobLog>>

\* on_generation_finished as the slot of the worker's finished signal
on_finished_signal ==
    /\ Delivered("finished")
    /\ on_generation_finished(Head(queue).success, jobLog)

\* on_generation_error(error_msg)
on_generation_error ==
    /\ Delivered("error")
    /\ on_generation_finished(FALSE, Append(jobLog, "error"))

GuiStep ==
    \/ load_epub_file \/ generate_audiobook \/ cancel_generation \/ cancel_generation_return
    \/ on_progress \/ on_finished_signal \/ on_generation_error

----------------------------------------------------------------------------

\* no command-line function is running
NoFrame == [fn |-> "none"]

NoRet == <<>>

\* AudiobookGeneratorGUI(): no book, no worker, nothing on disk
Init ==
    /\ frame = NoFrame
    /\ ret = NoRet
    /\ generateBtn = FALSE
    /\ cancelBtn = FALSE
    /\ nparts = -1
    /\ spinMax = QSpinDefaultMax
    /\ statusLabel = "Ready"
    /\ jobLog = <<>>
    /\ worker = NoWorker
    /\ queue = <<>>
    /\ emitted = <<>>
    /\ wav = [k \in Indices |-> "absent"]
    /\ opus = [k \in Indices |-> "absent"]
    /\ unit = [k \in Indices |-> "none"]
    /\ guiWaiting = FALSE
    /\ crashed = FALSE

Next == WorkerStep \/ GuiStep

Spec == Init /\ [][Next]_vars

----------------------------------------------------------------------------
(* One job on its own: a book of JobParts parts is loaded, generate_audiobook has
   started a worker over some range, and nobody clicks anything until it is over. *)

\* Number of parts of the book in the runs that follow one job from start to end.
JobParts == 5

\* the state generate_audiobook leaves when the user has picked the range (s, e)
JobInit ==
    /\ frame = NoFrame
    /\ ret = NoRet
    /\ generateBtn = FALSE
    /\ cancelBtn = TRUE
    /\ nparts = JobParts
    /\ spinMax = load_parts(JobParts)
    /\ statusLabel = "Ready"
    /\ jobLog = <<>>
    /\ \E s, e \in 0 .. (JobParts - 1) :
          worker = NewWorker(get_selected_range(s, e)[1], get_selected_range(s, e)[2])
    /\ queue = <<>>
    /\ emitted = <<>>
    /\ wav = [k \in 0 .. (JobParts - 1) |-> "absent"]
    /\ opus = [k \in 0 .. (JobParts - 1) |-> "absent"]
    /\ unit = [k \in 0 .. (JobParts - 1) |-> "none"]
    /\ guiWaiting = FALSE
    /\ crashed = FALSE

\* AudioGenerationWorker.run step by step, and the slots its signals are connected to
JobNext ==
    \/ W_Begin \/ W_Loop \/ W_OpenWav \/ W_Synth \/ W_Emit75 \/ W_Encode
    \/ W_Emit95 \/ W_Rm \/ W_Emit100 \/ W_PartComplete \/ W_Exit
    \/ on_progress \/ on_finished_signal \/ on_generation_error

SpecJob == JobInit /\ [][JobNext]_vars

----------------------------------------------------------------------------
(* Scheduling of a job that is left to run. The worker is a thread of its own: as
   long as it can take a step it takes one, every synthesis and encoder call
   returning or raising. The GUI thread runs Qt's event loop, which delivers every
   queued signal. So the job does not stop while one of its steps is possible. *)

SpecJobFair == SpecJob /\ WF_vars(JobNext)

----------------------------------------------------------------------------
(* Strings. A Python str is a sequence of one-character strings here, so that
   split(), int(), the format specs and the replacements work on characters. *)

Digits == <<"0", "1", "2", "3", "4", "5", "6", "7", "8", "9">>

isdigit(c) == \E d \in 1 .. 10 : Digits[d] = c

DigitValue(c) == (CHOOSE d \in 1 .. 10 : Digits[d] = c) - 1

\* str(n), what the user types for the number n
RECURSIVE str(_)
str(n) ==
    IF n < 0 THEN <<"-">> \o str(0 - n)
    ELSE IF n < 10 THEN <<Digits[n + 1]>>
    ELSE str(n \div 10) \o <<Digits[(n % 10) + 1]>>

\* " ".join(tokens)
RECURSIVE join(_)
join(tokens) ==
    IF tokens = <<>> THEN <<>>
    ELSE IF Len(tokens) = 1 THEN tokens[1]
    ELSE tokens[1] \o <<" ">> \o join(Tail(tokens))

\* txt.split(): the maximal runs of characters other than whitespace
RECURSIVE split_from(_, _, _)
split_from(txt, k, word) ==
    IF k > Len(txt)
    THEN IF word = <<>> THEN <<>> ELSE <<word>>
    ELSE IF txt[k] \in {" ", "\n", "\t"}
         THEN (IF word = <<>> THEN <<>> ELSE <<word>>) \o split_from(txt, k + 1, <<>>)
         ELSE split_from(txt, k + 1, Append(word, txt[k]))

split(txt) == split_from(txt, 1, <<>>)

\* the digits of an integer literal, without its sign
Unsigned(tok) == IF tok # <<>> /\ tok[1] \in {"-", "+"} THEN Tail(tok) ELSE tok

\* int(tok) does not raise ValueError: an optional sign and at least one digit
IsIntLiteral(tok) ==
    /\ Unsigned(tok) # <<>>
    /\ \A k \in 1 .. Len(Unsigned(tok)) : isdigit(Unsigned(tok)[k])

RECURSIVE NatValue(_)
NatValue(ds) ==
    IF ds = <<>> THEN 0
    ELSE NatValue(SubSeq(ds, 1, Len(ds) - 1)) * 10 + DigitValue(ds[Len(ds)])

\* int(tok) for a token that is an integer literal
int(tok) == IF tok[1] = "-" THEN 0 - NatValue(Unsigned(tok)) ELSE NatValue(Unsigned(tok))

----------------------------------------------------------------------------
(* A command-line run in mode "dump": BookReader(filename).dump(), which asks
   _find_parts for the range and writes one .txt file per selected part. *)

\* the main window is never constructed in a command-line run
NoWindow ==
    /\ generateBtn = FALSE
    /\ cancelBtn = FALSE
    /\ nparts = -1
    /\ spinMax = QSpinDefaultMax
    /\ statusLabel = "Ready"
    /\ jobLog = <<>>
    /\ worker = NoWorker
    /\ queue = <<>>
    /\ emitted = <<>>
    /\ wav = [k \in Indices |-> "absent"]
    /\ opus = [k \in Indices |-> "absent"]
    /\ unit = [k \in Indices |-> "none"]
    /\ guiWaiting = FALSE
    /\ crashed = FALSE

\* Largest len(parts) of the book a command-line run reads.
CliParts == 5

\* Largest number of whitespace-separated words the user types at the range prompt.
MaxWords == 3

\* the words the user types: numbers in and out of bounds, and words that are no number
Words == {str(n) : n \in -1 .. CliParts} \cup {<<"n">>, <<"1", "x">>}

\* what input("Enter part range to extract or 'n' to search: ") may return
Typed == {join(ws) : ws \in UNION {[1 .. k -> Words] : k \in 0 .. MaxWords}}

\* what input("Is this the start (y/n)? ") may return; all but "y" act alike
Answers == {"y", "n"}

\* len(nums) == 2 and nums[0] < nums[1] and nums[0] >= 0 and nums[1] < len(parts),
\* with "<=" for the first "<"
ValidHint_le(nums, n) ==
    Len(nums) = 2 /\ nums[1] <= nums[2] /\ nums[1] >= 0 /\ nums[2] < n

\* len(nums) == 2 and nums[0] < nums[1] and nums[0] >= 0 and nums[1] < len(parts)
ValidHint(nums, n) ==
    Len(nums) = 2 /\ nums[1] < nums[2] /\ nums[1] >= 0 /\ nums[2] < n

\* _find_parts(parts) is entered with len(parts) = n
FindPartsFrame(n) ==
    [fn |-> "_find_parts", pc |-> "input", len |-> n, toExtract |-> <<>>,
     i |-> 0, startIdx |-> 0, endIdx |-> 0, offers |-> <<>>]

InFindParts(p) == frame.fn = "_find_parts" /\ frame.pc = p

\* the prompt, nums = [int(x) for x in toExtract.split()] and the test of nums; a
\* ValueError of int() is caught and leads to the scan like a hint that fails the test
find_parts_input ==
    /\ InFindParts("input")
    /\ \E typed \in Typed :
          LET toks == split(typed)
              numeric == \A k \in 1 .. Len(toks) : IsIntLiteral(toks[k])
              nums == [k \in 1 .. Len(toks) |-> int(toks[k])]
          IN  IF numeric /\ ValidHint(nums, frame.len)
              THEN /\ frame' = [frame EXCEPT !.toExtract = typed, !.pc = "returned"]
                   /\ ret' = <<nums[1], nums[2]>>
              ELSE /\ frame' = [frame EXCEPT !.toExtract = typed, !.pc = "find_start",
                                              !.startIdx = 0, !.i = 0]
                   /\ ret' = NoRet
    /\ UNCHANGED appVars

\* endIdx = len(parts) - 1 and the first i of range(endIdx, 0, -1)
BeginEndScan(f) ==
    [f EXCEPT !.pc = "find_end", !.endIdx = f.len - 1, !.i = f.len - 1]

\* the forward loop without its break: a later "y" replaces an earlier one
StartAnswer_no_break(isStart) ==
    LET f == [frame EXCEPT !.offers = Append(frame.offers, <<"start", frame.i, isStart>>),
                           !.i = frame.i + 1]
    IN  IF isStart = "y" THEN [f EXCEPT !.startIdx = frame.i] ELSE f

\* the body of the forward loop at index i, given the answer to "Is this the start"
StartAnswer(isStart) ==
    LET f == [frame EXCEPT !.offers = Append(frame.offers, <<"start", frame.i, isStart>>)]
    IN  IF isStart = "y"
        THEN BeginEndScan([f EXCEPT !.startIdx = frame.i])
        ELSE [f EXCEPT !.i = frame.i + 1]

\* for i in range(0, len(parts)): one iteration, or the end of the loop
find_start ==
    /\ InFindParts("find_start")
    /\ IF frame.i < frame.len
       THEN \E isStart \in Answers : frame' = StartAnswer(isStart)
       ELSE frame' = BeginEndScan(frame)
    /\ UNCHANGED <<ret, appVars>>

\* the body of the backward loop at index i, given the answer to "Is this the end"
EndAnswer(isEnd) ==
    LET f == [frame EXCEPT !.offers = Append(frame.offers, <<"end", frame.i, isEnd>>)]
    IN  IF isEnd = "y"
        THEN [f EXCEPT !.endIdx = frame.i, !.pc = "return"]
        ELSE [f EXCEPT !.i = frame.i - 1]

\* for i in range(endIdx, 0, -1): one iteration, or the end of the loop
find_end ==
    /\ InFindParts("find_end")
    /\ IF frame.i > 0
       THEN \E isEnd \in Answers : frame' = EndAnswer(isEnd)
       ELSE frame' = [frame EXCEPT !.pc = "return"]
    /\ UNCHANGED <<ret, appVars>>

\* return (startIdx, endIdx)
find_parts_return ==
    /\ InFindParts("return")
    /\ frame' = [frame EXCEPT !.pc = "returned"]
    /\ ret' = <<frame.startIdx, frame.endIdx>>
    /\ UNCHANGED appVars

\* the rest of dump(): end is clamped, then parts start..end are written to .txt files
dump ==
    /\ InFindParts("returned")
    /\ LET start == ret[1]
           end == IF ret[2] = -1 \/ ret[2] >= frame.len THEN frame.len - 1 ELSE ret[2]
       IN  frame' = [fn |-> "dump", len |-> frame.len, start |-> start, end |-> end,
                     written |-> {k \in start .. end : TRUE}]
    /\ UNCHANGED <<ret, appVars>>

CliInit ==
    /\ NoWindow
    /\ \E n \in 0 .. CliParts : frame = FindPartsFrame(n)
    /\ ret = NoRet

CliNext == find_parts_input \/ find_start \/ find_end \/ find_parts_return \/ dump

SpecCli == CliInit /\ [][CliNext]_vars

----------------------------------------------------------------------------
(* File names: makedir() cleans the title, partBasename() adds the part index. *)

Letters ==
    {"a", "b", "c", "d", "e", "f", "g", "h", "i", "j", "k", "l", "m",
     "n", "o", "p", "q", "r", "s", "t", "u", "v", "w", "x", "y", "z",
     "A", "B", "C", "D", "E", "F", "G", "H", "I", "J", "K", "L", "M",
     "N", "O", "P", "Q", "R", "S", "T", "U", "V", "W", "X", "Y", "Z"}

\* c.isalnum(), for the ASCII characters
isalnum(c) == c \in Letters \/ isdigit(c)

isspace(c) == c \in {" ", "\n", "\t"}

\* c.isalnum() or c in ('_'): the test without the '-'
IsKept_no_dash(c) == isalnum(c) \/ c = "_"

\* c.isalnum() or c in ('-', '_')
IsKept(c) == isalnum(c) \/ c \in {"-", "_"}

\* txt.strip(): leading and trailing whitespace removed
RECURSIVE strip(_)
strip(txt) ==
    IF txt = <<>> THEN <<>>
    ELSE IF isspace(txt[1]) THEN strip(Tail(txt))
    ELSE IF isspace(txt[Len(txt)]) THEN strip(SubSeq(txt, 1, Len(txt) - 1))
    ELSE txt

\* "".join(c if c.isalnum() or c in ('-', '_') else '_' for c in part).strip()
clean_part(part) == strip([k \in 1 .. Len(part) |-> IF IsKept(part[k]) THEN part[k] ELSE "_"])

\* "_".join(parts) of the cleaned parts
RECURSIVE clean_filename(_)
clean_filename(parts) ==
    IF parts = <<>> THEN <<>>
    ELSE IF Len(parts) = 1 THEN clean_part(parts[1])
    ELSE clean_part(parts[1]) \o <<"_">> \o clean_filename(Tail(parts))

\* txt.rjust(width, "0")
RECURSIVE zfill(_, _)
zfill(txt, width) == IF Len(txt) >= width THEN txt ELSE zfill(<<"0">> \o txt, width)

\* f"{i:03d}": at least three characters, zeros after the sign
format_03d(i) == IF i < 0 THEN <<"-">> \o zfill(str(0 - i), 2) ELSE zfill(str(i), 3)

\* f"{title}_part_{i:03d}", the last component of what partBasename returns
partBasename(title, i) == title \o <<"_", "p", "a", "r", "t", "_">> \o format_03d(i)

\* Longest title, in characters, besides the one of the example.
MaxTitle == 3

TitleChars == {"a", "7", " ", "!", "-", "_"}

MyBook == <<"M", "y", " ", "B", "o", "o", "k", "!">>

Titles == UNION {[1 .. k -> TitleChars] : k \in 0 .. MaxTitle} \cup {MyBook}

\* the lists clean_filename is called with: makedir passes [self.getTitle()]
TitleLists == {<<t>> : t \in Titles} \cup {<<MyBook, t>> : t \in [1 .. 1 -> TitleChars]}

PartIndices == {0, 7, 42, 123, 1000}

NameFrame(parts, i) == [fn |-> "makedir", parts |-> parts, title |-> <<>>, i |-> i]

\* title = clean_filename([self.getTitle()])
makedir ==
    /\ frame.fn = "makedir"
    /\ frame' = [frame EXCEPT !.fn = "partBasename", !.title = clean_filename(frame.parts)]
    /\ UNCHANGED <<ret, appVars>>

\* basename = self.book.partBasename(outdir, title, i)
part_basename ==
    /\ frame.fn = "partBasename"
    /\ frame' = [frame EXCEPT !.fn = "returned"]
    /\ ret' = partBasename(frame.title, frame.i)
    /\ UNCHANGED appVars

NameInit ==
    /\ NoWindow
    /\ \E parts \in TitleLists, i \in PartIndices : frame = NameFrame(parts, i)
    /\ ret = NoRet

NameNext == makedir \/ part_basename

SpecName == NameInit /\ [][NameNext]_vars

----------------------------------------------------------------------------
(* The text _run_kokoro hands to the engine. *)

\* the one character U+00A0
NBSP == "NBSP"

\* txt.replace(old, new): the occurrences of old from the left, not overlapping
RECURSIVE replace_from(_, _, _, _)
replace_from(txt, k, old, new) ==
    IF k > Len(txt) THEN <<>>
    ELSE IF k + Len(old) - 1 <= Len(txt) /\ SubSeq(txt, k, k + Len(old) - 1) = old
         THEN new \o replace_from(txt, k + Len(old), old, new)
         ELSE <<txt[k]>> \o replace_from(txt, k + 1, old, new)

replace(txt, old, new) == replace_from(txt, 1, old, new)

\* \w, for the ASCII characters
isword(c) == isalnum(c) \/ c = "_"

\* where the run of word characters that starts at k ends: the first index after it
RECURSIVE RunEnd(_, _)
RunEnd(txt, k) == IF k <= Len(txt) /\ isword(txt[k]) THEN RunEnd(txt, k + 1) ELSE k

\* \b(\w+)'(\w+)\b matches at k: a word starts at k, an apostrophe ends it and a
\* word character follows the apostrophe
MatchesAt(txt, k) ==
    /\ isword(txt[k])
    /\ k = 1 \/ ~isword(txt[k - 1])
    /\ RunEnd(txt, k) + 1 <= Len(txt)
    /\ txt[RunEnd(txt, k)] = "'"
    /\ isword(txt[RunEnd(txt, k) + 1])

\* re.sub(r"\b(\w+)'(\w+)\b", r"\1\2", txt): the matches are searched from the left
\* and do not overlap, the search going on where the last match ended
RECURSIVE sub_from(_, _)
sub_from(txt, k) ==
    IF k > Len(txt) THEN <<>>
    ELSE IF MatchesAt(txt, k)
         THEN LET q == RunEnd(txt, k)
                  r == RunEnd(txt, q + 1)
              IN  SubSeq(txt, k, q - 1) \o SubSeq(txt, q + 1, r - 1) \o sub_from(txt, r)
         ELSE <<txt[k]>> \o sub_from(txt, k + 1)

\* the seven statements of _run_kokoro before wave.open
normalize(txt) ==
    LET t1 == replace(txt, <<"\n">>, <<" ">>)
        t2 == replace(t1, <<NBSP>>, <<" ">>)
        t3 == replace(t2, <<".", " ", ".", " ", ".">>, <<".">>)
        t4 == sub_from(t3, 1)
        t5 == replace(t4, <<".">>, <<".", "\n">>)
        t6 == replace(t5, <<"!">>, <<"!", "\n">>)
    IN  replace(t6, <<"?">>, <<"?", "\n">>)

\* Longest text of a part, in characters.
MaxLen == 5

TextChars == {"a", "'", ".", "?", " ", "\n", NBSP}

Texts == UNION {[1 .. k -> TextChars] : k \in 0 .. MaxLen}

\* Number of times a text is put through _run_kokoro: the text itself, then what
\* the first pass made of it.
Passes == 2

TextFrame(txt) == [fn |-> "_run_kokoro", txt |-> txt, handed |-> <<>>]

\* _run_kokoro(txt, filename) up to the call of the engine: handed is what
\* self._kokoro_generator(txt) receives, pass after pass
run_kokoro ==
    /\ frame.fn = "_run_kokoro"
    /\ Len(frame.handed) < Passes
    /\ frame' = [frame EXCEPT !.handed =
                    Append(@, normalize(IF @ = <<>> THEN frame.txt ELSE @[Len(@)]))]
    /\ UNCHANGED <<ret, appVars>>

TextInit ==
    /\ NoWindow
    /\ \E txt \in Texts : frame = TextFrame(txt)
    /\ ret = NoRet

TextNext == run_kokoro

SpecText == TextInit /\ [][TextNext]_vars

----------------------------------------------------------------------------
(* What the claims speak about *)

\* the signals of the current worker that satisfy Test, in the order it emitted them
Selected(Test(_)) == SelectSeq(emitted, Test)

IsProgress(sig) == sig.type = "progress"

IsPartComplete(sig) == sig.type = "progress" /\ sig.kind = "part"

IsError(sig) == sig.type = "error"

ProgressEvents == Selected(IsProgress)

PartCompletes == Selected(IsPartComplete)

Errors == Selected(IsError)

\* the worker has emitted finished(True)
SuccessEmitted == \E n \in 1 .. Len(emitted) : emitted[n].type = "finished" /\ emitted[n].success

\* the number "Part <current>/<total>" gives the part at index k
PartOf(k) == k - worker.start_idx + 1

\* the progress events emitted for the part at index k
EventsOf(k) == {n \in 1 .. Len(emitted) : IsProgress(emitted[n]) /\ emitted[n].part = PartOf(k)}

InLog(line) == \E n \in 1 .. Len(jobLog) : jobLog[n] = line

\* processing of the part at index k raised an exception
Raised(k) == unit[k] \in {"synth_raise", "enc_raise"}

\* the text of the exception of a part that raised
CauseOf(k) == IF unit[k] = "synth_raise" THEN "synthesis" ELSE "encoder"

----------------------------------------------------------------------------
(* C1: a job in which the encoder returned a non-zero exit code for some part never
   emits the success notification finished(True). *)
C1_SuccessOnlyIfEveryEncodeSucceeded ==
    SuccessEmitted => \A k \in Indices : unit[k] # "enc_fail"

(* C2: every per-unit error (an exception, or a non-zero encoder exit) ends the job:
   no part with a higher index is attempted afterwards, and when run() is over exactly
   one error signal has been emitted, which names the offending part. *)
C2_PerUnitErrorEndsJob ==
    \A k \in Indices :
        (Raised(k) \/ unit[k] = "enc_fail") =>
            /\ \A j \in Indices : j > k => unit[j] = "none"
            /\ worker.pc \in {"emitted", "exited"} =>
                  /\ Len(Errors) = 1
                  /\ Errors[1].part = PartOf(k)

(* C3 as stated: a cancel request never stops the worker inside a part; a worker that
   was stopped is stopped before the first part, between two parts (the synthesize
   step of the part in flight has returned) or after its last signal. *)
C3_StoppedBetweenUnitsOnly ==
    Killed => worker.pc \in {"begin", "loop", "part", "emitted"}

\* once cancel_generation has returned, the worker is not running
C3_StoppedState == InLog("cancelled") => ~isRunning

\* a stopped worker changes no file and emits nothing (emitted is emptied by the next job)
C3_StoppedStep ==
    Killed => /\ wav' = wav
              /\ opus' = opus
              /\ emitted' = emitted \/ emitted' = <<>>

(* C3 amended: cancellation is not cooperative. cancel_generation calls terminate()
   and waits, which stops the worker wherever it is, inside a part's synthesis or
   encode call too. Once cancel_generation has returned the worker is not running,
   and a stopped worker changes no file and emits nothing, so the part in flight
   stays as it was left (a partial .wav, or a complete .wav without its .opus). *)
C3_HardCancelStopsWorkerAnywhere == []C3_StoppedState /\ [][C3_StoppedStep]_vars

C3_Witness ==
    /\ Killed
    /\ InLog("cancelled")
    /\ worker.pc = "synth"
    /\ wav[worker.i] = "partial"

\* cancel_generation returns from a request that came between two parts
C4_CancelReturns == guiWaiting /\ ~guiWaiting' /\ worker.reqi # -1

C4_CancelledBetweenUnitsStep ==
    C4_CancelReturns =>
        /\ statusLabel' \notin {"Generation failed", "Generation complete"}
        /\ worker'.i = worker.reqi
        /\ worker'.pc \in {"loop", "open"}

(* C4: when cancellation is requested right after the PartComplete of a part and
   before the next part starts, the outcome shown when cancel_generation returns is
   Cancelled, not Failed and not Completed, and the worker has created no file of the
   next part: it was stopped before wave.open of that part. *)
C4_CancelledBetweenUnits == [][C4_CancelledBetweenUnitsStep]_vars

(* C5: for a range with start < end, the PartComplete events of a job are those of
   parts 1, 2, ... in this order, each "k/total", and a job that runs to its end
   (no cancel, no exception) has emitted exactly end-start+1 of them. *)
C5_PartCompletePerUnitInOrder ==
    worker.start_idx < worker.end_idx =>
        /\ \A n \in 1 .. Len(PartCompletes) :
              PartCompletes[n].part = n /\ PartCompletes[n].total = total_parts
        /\ Len(PartCompletes) <= total_parts
        /\ SuccessEmitted => Len(PartCompletes) = total_parts

C5_Witness ==
    /\ worker.start_idx < worker.end_idx
    /\ SuccessEmitted
    /\ Len(PartCompletes) = worker.end_idx - worker.start_idx + 1

(* C6: the fractions num/den of the progress events of one job never decrease from
   one event to the next, and each lies in [0, 1]. *)
C6_FractionMonotoneInUnitInterval ==
    \A n \in 1 .. Len(ProgressEvents) :
        /\ 0 <= ProgressEvents[n].num
        /\ ProgressEvents[n].num <= ProgressEvents[n].den
        /\ n > 1 => ProgressEvents[n - 1].num * ProgressEvents[n].den
                        <= ProgressEvents[n].num * ProgressEvents[n - 1].den

C6_Witness ==
    /\ SuccessEmitted
    /\ worker.start_idx < worker.end_idx
    /\ \E k \in Indices : unit[k] = "enc_fail"
    /\ \E k \in Indices : unit[k] = "enc_ok"

(* C7 as stated: once TextToAudio.run has returned for a part, the .wav file is gone
   if the encoder succeeded, and if the encoder failed the .wav file exists and the
   .opus file does not. *)
C7_FilesAfterUnit ==
    worker.pc = "part" =>
        /\ unit[worker.i] = "enc_ok" => wav[worker.i] = "absent"
        /\ unit[worker.i] = "enc_fail" =>
              wav[worker.i] = "complete" /\ opus[worker.i] = "absent"

\* the files of the part TextToAudio.run has just returned for
C7_FilesAfterUnitState ==
    worker.pc = "part" =>
        /\ unit[worker.i] = "enc_ok" =>
              wav[worker.i] = "absent" /\ opus[worker.i] = "complete"
        /\ unit[worker.i] = "enc_fail" => wav[worker.i] = "complete"

\* an encoder call that fails leaves every .opus file as it was
C7_EncodeFailureStep ==
    (worker.pc = "encode" /\ unit'[worker.i] = "enc_fail") => opus' = opus

(* C7 amended: once TextToAudio.run has returned for a part, the .wav file is gone if
   the encoder succeeded; if the encoder failed the .wav file exists and the .opus
   file is as it was before the part was processed: absent, unless an earlier run
   over the same index had written it. *)
C7_FilesAfterUnitAmended == []C7_FilesAfterUnitState /\ [][C7_EncodeFailureStep]_vars

C7_Witness ==
    /\ worker.pc = "part"
    /\ unit[worker.i] = "enc_fail"
    /\ wav[worker.i] = "complete"
    /\ opus[worker.i] = "complete"

(* C8: when processing of a part raises, the run stops there: no later part is
   started, no PartComplete is emitted for the part that raised, finished(True) is
   never emitted, and the one error signal, carrying the text of the exception, is
   the last signal of the job. *)
C8_RaiseStopsRun ==
    \A k \in Indices :
        Raised(k) =>
            /\ \A j \in Indices : j > k => unit[j] = "none"
            /\ \A n \in EventsOf(k) : emitted[n].kind # "part"
            /\ ~SuccessEmitted
            /\ Len(Errors) = 1
            /\ emitted[Len(emitted)] = error_signal(CauseOf(k))

C8_Witness ==
    \E k \in Indices :
        /\ Raised(k)
        /\ k < worker.end_idx
        /\ worker.pc = "exited"

\* a click on generate_btn gets as far as disabling the button and constructing a worker
C9_StartAccepted == generateBtn /\ ~generateBtn'

(* C9: a request to start a job while a worker is still running is rejected: while
   isRunning() holds, no click on generate_btn starts a job. *)
C9_NoStartWhileRunning == [][isRunning => ~C9_StartAccepted]_vars

(* C10 as stated: for a part whose encoder call failed, no progress event of that
   part follows its 75% milestone. *)
C10_NothingAfterEncodeStart ==
    \A k \in Indices :
        unit[k] = "enc_fail" =>
            \A n \in EventsOf(k) : emitted[n].kind = "sub" /\ emitted[n].pct <= 75

(* C10 amended: for a part whose encoder call failed, the sub-step events are the 5%
   and 75% milestones only (no 95, no 100), but the PartComplete event of that part,
   with fraction current/total, is emitted all the same once the part is left. *)
C10_NoMilestoneAfterEncodeStart ==
    \A k \in Indices :
        unit[k] = "enc_fail" =>
            /\ \A n \in EventsOf(k) : emitted[n].kind = "sub" => emitted[n].pct \in {5, 75}
            /\ worker.i > k =>
                  \E n \in EventsOf(k) :
                      /\ emitted[n].kind = "part"
                      /\ emitted[n].num = PartOf(k) * 100
                      /\ emitted[n].den = total_parts * 100

C10_Witness ==
    \E k \in Indices :
        /\ unit[k] = "enc_fail"
        /\ \E n \in EventsOf(k) : emitted[n].kind = "part"

\* every progress event of the job carries the exact fraction of its part and milestone
C11_FractionsState ==
    \A n \in 1 .. Len(emitted) :
        IsProgress(emitted[n]) =>
            /\ emitted[n].total = total_parts
            /\ emitted[n].part \in 1 .. total_parts
            /\ emitted[n].kind = "sub" =>
                  /\ emitted[n].pct \in {5, 75, 95, 100}
                  /\ emitted[n].num * 100 * emitted[n].total
                        = emitted[n].den * ((emitted[n].part - 1) * 100 + emitted[n].pct)
            /\ emitted[n].kind = "part" =>
                  emitted[n].num * emitted[n].total = emitted[n].den * emitted[n].part

\* a progress event is emitted for the part the loop is at: current = i - start + 1
C11_EventStep ==
    \A sig \in {part_progress_callback(c, total_parts, p) :
                    c \in 1 .. total_parts, p \in {5, 75, 95, 100}}
               \cup {part_complete_progress(c, total_parts) : c \in 1 .. total_parts} :
        emitted' = Append(emitted, sig) => sig.part = worker.i - worker.start_idx + 1

(* C11: in a job over (start, end) with total = end - start + 1, the part at index i
   (current = i - start + 1) reports each milestone p in {5, 75, 95, 100} with the
   fraction exactly ((current - 1) + p/100) / total under the tag
   "Part <current>/<total>", and its PartComplete event carries exactly
   current/total; with 5 parts and the range (1, 3) the PartComplete after the part at
   index 2 carries exactly 2/3. *)
C11_ExactFractionPerMilestone == []C11_FractionsState /\ [][C11_EventStep]_vars

C11_Witness ==
    /\ nparts >= 5
    /\ worker.start_idx = 1 /\ worker.end_idx = 3
    /\ SuccessEmitted
    /\ \A k \in 1 .. 3 : unit[k] = "enc_ok"
    /\ Len(PartCompletes) = 3
    /\ PartCompletes[2].part = 2
    /\ PartCompletes[2].num * 3 = PartCompletes[2].den * 2

(* C12: every range that range selection produces, by the typed numbers or by the
   interactive scans under any answers, satisfies 0 <= start <= end < len(parts);
   stated for the books that have a part at all (over an empty parts list no pair
   satisfies it, and _find_parts returns (0, -1)). *)
C12_RangeInvariant ==
    (ret # NoRet /\ frame.len > 0) =>
        0 <= ret[1] /\ ret[1] <= ret[2] /\ ret[2] < frame.len

\* the typed text is the two integers s and e
IsPair(typed, s, e) == typed = join(<<str(s), str(e)>>)

\* the integers the user may have meant
HintValues == -1 .. CliParts

(* C13 as stated: a typed pair (start, end) comes back as the range of _find_parts
   only if 0 <= start < end < len(parts). *)
C13_HintReturnedOnlyIfValid ==
    (frame.fn = "_find_parts" /\ ret # NoRet) =>
        \A s, e \in HintValues :
            (IsPair(frame.toExtract, s, e) /\ ret = <<s, e>>) =>
                (0 <= s /\ s < e /\ e < frame.len)

\* what the step that reads the typed text does with it
C13_HintStep ==
    InFindParts("input") =>
        /\ \A s, e \in HintValues :
              IsPair(frame'.toExtract, s, e) =>
                  IF 0 <= s /\ s < e /\ e < frame.len
                  THEN frame'.pc = "returned" /\ ret' = <<s, e>>
                  ELSE frame'.pc = "find_start" /\ ret' = NoRet
        /\ (~ \E s, e \in HintValues : IsPair(frame'.toExtract, s, e)) =>
              frame'.pc = "find_start" /\ ret' = NoRet

(* C13 amended: typed text that is two integers (start, end) is accepted, and
   returned unchanged without any scan, if and only if 0 <= start < end < len(parts);
   any other text (end < start, start = end, a negative or out-of-bounds value, more
   or fewer than two values, a word that is no number) is not accepted and leads to
   the interactive scan. What the scan then returns depends on the answers alone and
   may be the very pair that was typed. *)
C13_HintAcceptedIffValid == [][C13_HintStep]_vars

C13_Witness ==
    /\ InFindParts("find_start")
    /\ frame.len = 5
    /\ IsPair(frame.toExtract, 2, 1)
    /\ ret = NoRet

\* the offers of one scan, in the order they were made
OffersOf(scan) == SelectSeq(frame.offers, LAMBDA o : o[1] = scan)

\* a scan that offered these asked about idx first, then idx + step, ..., and
\* stopped at the first "y"
StopsAtFirstYes(offers, idx, step) ==
    \A k \in 1 .. Len(offers) :
        /\ offers[k][2] = idx + (k - 1) * step
        /\ offers[k][3] = "y" => k = Len(offers)

\* the index a finished scan settles on: the one confirmed, or the default
Confirmed(offers, default) ==
    IF offers # <<>> /\ offers[Len(offers)][3] = "y"
    THEN offers[Len(offers)][2]
    ELSE default

\* the scans as they stand when _find_parts is about to return their result
C14_ScanState ==
    InFindParts("return") =>
        /\ StopsAtFirstYes(OffersOf("start"), 0, 1)
        /\ StopsAtFirstYes(OffersOf("end"), frame.len - 1, -1)
        /\ frame.startIdx = Confirmed(OffersOf("start"), 0)
        /\ frame.endIdx = Confirmed(OffersOf("end"), frame.len - 1)

\* the pair returned is the pair the scans settled on
C14_ReturnStep ==
    InFindParts("return") => ret' = <<frame.startIdx, frame.endIdx>>

(* C14: on the interactive path start is the first index confirmed in a forward scan
   that offers the parts from index 0 upward, end is the first index confirmed in a
   backward scan that offers the parts from the last index downward; each scan stops
   at its first confirmation, and a scan without confirmation leaves start at 0,
   end at len(parts) - 1. *)
C14_ScanBoundaries == []C14_ScanState /\ [][C14_ReturnStep]_vars

C14_Witness ==
    /\ InFindParts("returned")
    /\ frame.len = 5
    /\ Len(OffersOf("start")) = 2 /\ frame.startIdx = 1
    /\ Len(OffersOf("end")) = 4 /\ frame.endIdx = 4
    /\ ret = <<1, 4>>

\* the name has been computed for the title t alone and the index i
NameOf(t, i) == frame.fn = "returned" /\ frame.parts = <<t>> /\ frame.i = i

\* the name is the title with every character other than a letter, a digit, '-' and
\* '_' replaced by '_', then "_part_", then the index in at least three digits
C15_Rule ==
    \A t \in Titles, i \in PartIndices :
        NameOf(t, i) =>
            LET n == Len(t)
                digits == SubSeq(ret, n + 7, Len(ret))
            IN  /\ Len(ret) >= n + 9
                /\ \A k \in 1 .. n :
                      ret[k] = IF t[k] \in Letters \/ t[k] \in {"7", "-", "_"}
                               THEN t[k] ELSE "_"
                /\ SubSeq(ret, n + 1, n + 6) = <<"_", "p", "a", "r", "t", "_">>
                /\ IsIntLiteral(digits) /\ int(digits) = i
                /\ Len(digits) > 3 => digits[1] # "0"

(* C15 as stated: the basename is "<sanitized title>_part_<index in 3 digits>", and
   for the title "My Book!" and the index 7 it is exactly "My_Book_part_007". *)
C15_BasenameAsStated ==
    /\ C15_Rule
    /\ NameOf(MyBook, 7) =>
          ret = <<"M", "y", "_", "B", "o", "o", "k", "_", "p", "a", "r", "t", "_",
                  "0", "0", "7">>

(* C15 amended: the basename is "<sanitized title>_part_<index zero-padded to at
   least 3 digits>", where sanitization maps every character that is not
   alphanumeric, '-' or '_' to '_'; the '!' of "My Book!" is such a character, so the
   basename for "My Book!" and 7 is exactly "My_Book__part_007", with two
   underscores before "part". *)
C15_Basename ==
    /\ C15_Rule
    /\ NameOf(MyBook, 7) =>
          ret = <<"M", "y", "_", "B", "o", "o", "k", "_", "_", "p", "a", "r", "t", "_",
                  "0", "0", "7">>

C15_Witness ==
    /\ NameOf(MyBook, 7)
    /\ frame.title = <<"M", "y", "_", "B", "o", "o", "k", "_">>
    /\ Len(ret) = 17

\* txt contains old
Contains(txt, old) ==
    \E k \in 1 .. Len(txt) :
        k + Len(old) - 1 <= Len(txt) /\ SubSeq(txt, k, k + Len(old) - 1) = old

(* C16: for every text without a non-breaking space and without the ellipsis run
   ". . .", normalizing what normalize returned changes nothing:
   normalize(normalize(text)) = normalize(text). *)
C16_NormalizeIdempotent ==
    (/\ frame.fn = "_run_kokoro"
     /\ Len(frame.handed) = 2
     /\ ~Contains(frame.txt, <<NBSP>>)
     /\ ~Contains(frame.txt, <<".", " ", ".", " ", ".">>)) =>
        frame.handed[2] = frame.handed[1]

\* tts.run has been entered for the part at index k and has not come to the encoder's
\* result (or to an exception) yet
InFlight(k) == unit[k] = "started"

(* C17: within one job no two parts are inside their tts.run call at the same time,
   and the parts are processed strictly in increasing index order: the parts touched
   so far are start_idx .. i without a gap, the part numbers of the progress events
   never decrease, and every event of part c + 1 comes after the PartComplete event
   of part c. *)
C17_OneUnitAtATimeInOrder ==
    worker.exists =>
        /\ \A j, k \in Indices : (InFlight(j) /\ InFlight(k)) => j = k
        /\ \A k \in Indices :
              /\ InFlight(k) => k = worker.i
              /\ unit[k] # "none" <=>
                    (worker.start_idx <= k /\
                     (k < worker.i \/ (k = worker.i /\ worker.pc \notin {"begin", "loop"}
                                                   /\ EventsOf(k) # {})))
        /\ \A n \in 1 .. Len(ProgressEvents) :
              /\ n > 1 => ProgressEvents[n - 1].part <= ProgressEvents[n].part
              /\ ProgressEvents[n].part > 1 =>
                    \E m \in 1 .. (n - 1) :
                        /\ ProgressEvents[m].kind = "part"
                        /\ ProgressEvents[m].part = ProgressEvents[n].part - 1

C17_Witness ==
    /\ worker.start_idx = 0 /\ worker.end_idx = 1
    /\ unit[0] = "enc_fail"
    /\ InFlight(1)
    /\ worker.pc = "encode"

\* the event loop hands a signal of the current worker to its slot
C18_HandlesOwnSignal ==
    /\ queue # <<>>
    /\ queue' = Tail(queue)
    /\ ~Head(queue).stale

(* C18: the control context handles exactly one terminal outcome per job, and once it
   has handled one, it handles no further progress event and no other terminal
   outcome of that job. Here for the outcome of a cancel request: after
   cancel_generation has ended the job (the log line "Generation cancelled by user",
   then on_generation_finished(False)), no signal of that job's worker is handled. *)
C18_TerminalOutcomeIsFinal == [][C18_HandlesOwnSignal => ~InLog("cancelled")]_vars

(* C19: the synthesis engine handle is created at most once per process: however
   many parts and jobs have run, at most one pipeline has been created, every
   synthesis call after the first reusing that one. *)
C19_EngineHandleCreatedOnce == Cardinality(KPipelines) <= 1

\* an apostrophe of txt with a word character right before it and right after it
ContractionAt(txt, k) ==
    /\ txt[k] = "'"
    /\ k > 1 /\ isword(txt[k - 1])
    /\ k < Len(txt) /\ isword(txt[k + 1])

(* C20: for every text, what _run_kokoro hands to the engine contains no apostrophe
   that stands between two word characters, also when one token of the text contains
   several such apostrophes. *)
C20_NoContractionApostropheLeft ==
    (frame.fn = "_run_kokoro" /\ frame.handed # <<>>) =>
        \A k \in 1 .. Len(frame.handed[1]) : ~ContractionAt(frame.handed[1], k)

\* the worker has emitted its terminal signal, finished or error
TerminalEmitted == SuccessEmitted \/ Errors # <<>>

\* the parts of the job that tts.run has been called for
Iterations == {k \in DOMAIN unit : unit[k] # "none"}

\* the loop body runs at most end - start + 1 times
C21_IterationsBounded ==
    /\ Cardinality(Iterations) <= total_parts
    /\ Len(PartCompletes) <= total_parts
    /\ worker.i <= worker.end_idx + 1

\* the running worker emits finished or error, and then stops
C21_WorkerEmitsTerminal == isRunning ~> (TerminalEmitted /\ ~isRunning)

\* the job that was started ends with generate_btn enabled again
C21_StartReenabled == (~generateBtn) ~> generateBtn

(* C21: every started job terminates. For every range and every pattern of per-part
   outcomes, each synthesis and encoder call returning or raising, the loop body runs
   at most end - start + 1 times, the worker eventually emits its terminal signal
   (finished or error) and stops, and the GUI thread eventually enables generate_btn
   again, so that a new job can be started. *)
C21_JobTerminates ==
    /\ []C21_IterationsBounded
    /\ C21_WorkerEmitsTerminal
    /\ C21_StartReenabled

C21_Witness ==
    /\ worker.pc = "exited"
    /\ worker.start_idx = 1 /\ worker.end_idx = 3
    /\ unit[1] = "enc_fail" /\ unit[2] = "enc_ok" /\ unit[3] = "enc_raise"
    /\ Errors # <<>>
    /\ Cardinality(Iterations) = 3
    /\ generateBtn
    /\ queue = <<>>

====
